---- MODULE Spec2Model ----
(***************************************************************************)
(* Model of src/app.py (Investment Property Analyzer, Flask backend).      *)
(*                                                                         *)
(* The program is a stateless service: the only state that survives a call *)
(* is the module-level e-mail configuration read from the environment at   *)
(* import time.  Every operation (format_currency, format_percent,         *)
(* get_status_color, generate_pdf, generate_report, send_email) is one      *)
(* action taken as a whole; the state                                      *)
(* after an action is the observable outcome of that call.                 *)
(*                                                                         *)
(* Representation of Python values                                         *)
(*   text    a sequence of one-character strings                           *)
(*   None    Null                                                          *)
(*   int     Num(n)                                                        *)
(*   float   Frac(neg, n, d): sign flag and magnitude n/d (so that -0.0    *)
(*           and values that round to zero keep their sign)                *)
(*   bool    Bool(b)                                                       *)
(*   str     Str(s)                                                        *)
(* Units of the numeric input fields: money in whole dollars (JSON         *)
(* integers); capRate, cashOnCash, onePercentRule, interestRate in basis   *)
(* points (1/10000); dscr and grm in hundredths; vacancyRate and           *)
(* downPaymentPercent in whole percent.                                    *)
(***************************************************************************)
EXTENDS Integers, Sequences, FiniteSets, TLC

VARIABLES
    EMAIL_USER,      \* app.py:47, read once from the environment
    EMAIL_PASSWORD,  \* app.py:48
    op,              \* the operation whose outcome the state holds ("idle": none)
    helper,          \* arguments and outcome of a helper call
    arg,             \* the input mapping handed to the call
    data,            \* the same mapping object when the call is over
    pdf,             \* outcome of generate_pdf
    response,        \* the HTTP response of generate_report
    mail             \* outcome of send_email

vars == <<EMAIL_USER, EMAIL_PASSWORD, op, helper, arg, data, pdf, response, mail>>

----------------------------------------------------------------------------
(* Python values *)

Null == [t |-> "null"]
Num(n) == [t |-> "num", v |-> n]
Frac(neg, n, d) == [t |-> "frac", neg |-> neg, n |-> n, d |-> d]
Bool(b) == [t |-> "bool", v |-> b]
Str(s) == [t |-> "str", v |-> s]

\* A HexColor object returned by a function.
Color(c) == [t |-> "color", v |-> c]

\* The outcome of an expression that raised.
Raised(kind) == [t |-> "raise", kind |-> kind]

IsRaise(x) == x.t = "raise"

\* Brand colours (app.py:35-42)
NAVY == "NAVY"
CYAN == "CYAN"
WHITE == "WHITE"
DARK_GRAY == "DARK_GRAY"
SUCCESS == "SUCCESS"
WARNING == "WARNING"
DANGER == "DANGER"

----------------------------------------------------------------------------
(* Text: number formatting as Python's format mini-language does it *)

DigitChars == <<"0", "1", "2", "3", "4", "5", "6", "7", "8", "9">>

Abs(n) == IF n < 0 THEN -n ELSE n

\* str(n) for n >= 0
RECURSIVE Digits(_)
Digits(n) ==
    IF n < 10 THEN <<DigitChars[n + 1]>>
    ELSE Digits(n \div 10) \o <<DigitChars[(n % 10) + 1]>>

\* three digits, zero padded
Pad3(n) ==
    <<DigitChars[(n \div 100) + 1], DigitChars[((n \div 10) % 10) + 1], DigitChars[(n % 10) + 1]>>

\* two digits, zero padded
Pad2(n) == <<DigitChars[((n \div 10) % 10) + 1], DigitChars[(n % 10) + 1]>>

\* the "," option: thousands grouping of n >= 0
RECURSIVE Grouped(_)
Grouped(n) ==
    IF n < 1000 THEN Digits(n)
    ELSE Grouped(n \div 1000) \o <<",">> \o Pad3(n % 1000)

\* round-half-to-even of n/d (n >= 0, d > 0), as the "f" presentation rounds
RoundHalfEven(n, d) ==
    LET q == n \div d
        r == n % d
    IN  IF 2 * r < d THEN q
        ELSE IF 2 * r > d THEN q + 1
        ELSE IF q % 2 = 0 THEN q ELSE q + 1

\* sign and integer magnitude of a number formatted with precision 0
IsNegative(x) == IF x.t = "num" THEN x.v < 0 ELSE x.neg
Magnitude0(x) == IF x.t = "num" THEN Abs(x.v) ELSE RoundHalfEven(x.n, x.d)

\* f"{x:,.0f}": the sign is written first, then the grouped magnitude
FormatGrouped0(x) ==
    (IF IsNegative(x) THEN <<"-">> ELSE <<>>) \o Grouped(Magnitude0(x))

----------------------------------------------------------------------------
(* format_currency, app.py:83-87 *)

format_currency(amount) ==
    IF amount.t = "null" THEN <<"$", "0">>
    ELSE <<"$">> \o FormatGrouped0(amount)

----------------------------------------------------------------------------
(* format_percent, app.py:90-94.  The argument is in basis points, so that *)
(* value * 100 has exactly two decimals.                                   *)

format_percent(value) ==
    IF value.t = "null" THEN <<"0", ".", "0", "0", "%">>
    ELSE (IF value.v < 0 THEN <<"-">> ELSE <<>>)
         \o Digits(Abs(value.v) \div 100) \o <<".">> \o Pad2(Abs(value.v) % 100) \o <<"%">>

\* f"{x:.2f}" of a number given in hundredths (dscr, grm); None has no
\* float format and raises TypeError
FormatFixed2(x) ==
    IF x.t = "null" THEN Raised("TypeError")
    ELSE Str((IF x.v < 0 THEN <<"-">> ELSE <<>>)
             \o Digits(Abs(x.v) \div 100) \o <<".">> \o Pad2(Abs(x.v) % 100))

\* Python truth value of an object
Truthy(x) ==
    CASE x.t = "null" -> FALSE
      [] x.t = "num" -> x.v # 0
      [] x.t = "frac" -> x.n # 0
      [] x.t = "bool" -> x.v
      [] x.t = "str" -> Len(x.v) > 0

----------------------------------------------------------------------------
(* get_status_color, app.py:97-110.  Comparing None with a number raises   *)
(* TypeError.                                                              *)

get_status_color(value, good_threshold, warn_threshold, higher_is_better) ==
    IF value.t = "null" THEN Raised("TypeError")
    ELSE IF higher_is_better
    THEN IF value.v >= good_threshold.v THEN Color(SUCCESS)
         ELSE IF Truthy(warn_threshold) /\ value.v >= warn_threshold.v THEN Color(WARNING)
         ELSE Color(DANGER)
    ELSE IF value.v <= good_threshold.v THEN Color(SUCCESS)
         ELSE IF Truthy(warn_threshold) /\ value.v <= warn_threshold.v THEN Color(WARNING)
         ELSE Color(DANGER)

----------------------------------------------------------------------------
(* dict.get and str() *)

\* data.get(key, default): the default replaces an absent key only; a key
\* that is present with the value None yields None
Get(d, key, default) == IF key \in DOMAIN d THEN d[key] ELSE default

\* str(x) / f"{x}"
PyStr(x) ==
    CASE x.t = "null" -> <<"N", "o", "n", "e">>
      [] x.t = "num" -> (IF x.v < 0 THEN <<"-">> ELSE <<>>) \o Digits(Abs(x.v))
      [] x.t = "bool" -> IF x.v THEN <<"T", "r", "u", "e">> ELSE <<"F", "a", "l", "s", "e">>
      [] x.t = "str" -> x.v

\* f"{x:,}": grouping is defined for numbers only
FormatGroupedInt(x) ==
    IF x.t = "num" THEN Str((IF x.v < 0 THEN <<"-">> ELSE <<>>) \o Grouped(Abs(x.v)))
    ELSE Raised("TypeError")

----------------------------------------------------------------------------
(* reportlab TableStyle TEXTCOLOR commands: a command                      *)
(* <<c0, r0, c1, r1, colour>> colours the cells of columns c0..c1 and rows *)
(* r0..r1 (0-based, -1 the last); later commands override earlier ones.    *)

DefaultTextColor == "black"

Resolve(i, n) == IF i < 0 THEN n + i ELSE i

Covers(cmd, c, r, ncols, nrows) ==
    /\ Resolve(cmd[1], ncols) <= c /\ c <= Resolve(cmd[3], ncols)
    /\ Resolve(cmd[2], nrows) <= r /\ r <= Resolve(cmd[4], nrows)

RECURSIVE CellColor(_, _, _, _, _, _)
CellColor(cmds, k, c, r, ncols, nrows) ==
    IF k = 0 THEN DefaultTextColor
    ELSE IF Covers(cmds[k], c, r, ncols, nrows) THEN cmds[k][5]
    ELSE CellColor(cmds, k - 1, c, r, ncols, nrows)

\* the text colour of every cell after all setStyle calls
TextColors(cmds, ncols, nrows) ==
    [r \in 0..(nrows - 1) |-> [c \in 0..(ncols - 1) |->
        CellColor(cmds, Len(cmds), c, r, ncols, nrows)]]

----------------------------------------------------------------------------
(* Literal texts of app.py *)

NA == <<"N", "/", "A">>
FL == <<"F", "L">>
TxtGOOD == <<"G", "O", "O", "D">>
TxtAVERAGE == <<"A", "V", "E", "R", "A", "G", "E">>
TxtLOW == <<"L", "O", "W">>
TxtSTRONG == <<"S", "T", "R", "O", "N", "G">>
TxtMARGINAL == <<"M", "A", "R", "G", "I", "N", "A", "L">>
TxtWEAK == <<"W", "E", "A", "K">>
TxtHIGH == <<"H", "I", "G", "H">>
TxtPASS == <<"P", "A", "S", "S">>
TxtFAIL == <<"F", "A", "I", "L">>
TxtREVIEW == <<"R", "E", "V", "I", "E", "W">>
TxtYES == <<"Y", "E", "S">>
TxtNO == <<"N", "O">>
TxtSTRONGBUY == <<"S", "T", "R", "O", "N", "G", " ", "B", "U", "Y">>
TxtCONSIDER == <<"C", "O", "N", "S", "I", "D", "E", "R">>

\* a section of the story that was built
Block(name, content) == [t |-> "block", name |-> name, content |-> content]

\* the first exception among the results of expressions evaluated in order
\* (Null when none raised)
FirstRaise(results) ==
    LET raising == {k \in DOMAIN results : IsRaise(results[k])}
    IN  IF raising = {} THEN Null
        ELSE results[CHOOSE k \in raising : \A j \in raising : k <= j]

\* a * b for the operands that occur in app.py: None is no operand of *
Mul(a, b) ==
    IF a.t = "null" \/ b.t = "null" THEN Raised("TypeError")
    ELSE IF a.t = "num" /\ b.t = "num" THEN Num(a.v * b.v)
    ELSE LET an == IF a.t = "num" THEN Abs(a.v) ELSE a.n
             ad == IF a.t = "num" THEN 1 ELSE a.d
             bn == IF b.t = "num" THEN Abs(b.v) ELSE b.n
             bd == IF b.t = "num" THEN 1 ELSE b.d
         IN  Frac(IsNegative(a) # IsNegative(b), an * bn, ad * bd)

\* format_currency applied to the result of an expression that may have raised
CurrencyOf(x) == IF IsRaise(x) THEN x ELSE Str(format_currency(x))

\* vacancyRate is given in whole percent: JSON 0 is the int 0, any other
\* value p is the float p / 100
RateValue(x) ==
    IF x.t = "num" /\ x.v # 0 THEN Frac(x.v < 0, Abs(x.v), 100) ELSE x

----------------------------------------------------------------------------
(* generate_pdf, app.py:113-439: the sections of the story, in the order   *)
(* the code appends them.  Each is the block appended, or the exception    *)
(* raised while its rows were evaluated.                                   *)

\* app.py:169-191
HeaderSection(d) ==
    Block("header", [preparedFor |-> PyStr(Get(d, "userName", Str(NA)))])

\* app.py:193-219
PropertySummarySection(d) ==
    LET address == PyStr(Get(d, "propertyAddress", Str(NA))) \o <<",", " ">>
                   \o PyStr(Get(d, "propertyCity", Str(<<>>))) \o <<",", " ">>
                   \o PyStr(Get(d, "propertyState", Str(FL))) \o <<" ">>
                   \o PyStr(Get(d, "propertyZip", Str(<<>>)))
        sqft == FormatGroupedInt(Get(d, "sqft", Num(0)))
    IN  IF IsRaise(sqft) THEN sqft
        ELSE Block("property summary",
                   [address |-> address,
                    propertyType |-> Get(d, "propertyType", Str(NA)),
                    units |-> PyStr(Get(d, "numUnits", Num(1))),
                    bedsBaths |-> PyStr(Get(d, "bedrooms", Str(NA))) \o <<" ", "/", " ">>
                                  \o PyStr(Get(d, "bathrooms", Str(NA))),
                    sqft |-> sqft.v \o <<" ", "S", "F">>,
                    yearBuilt |-> PyStr(Get(d, "yearBuilt", Str(NA))),
                    lotSize |-> PyStr(Get(d, "lotSize", Num(0))) \o <<" ", "a", "c", "r", "e", "s">>])

\* app.py:224-232: the cells, in the order the list literal evaluates them
SnapshotCells(d) ==
         <<
            CurrencyOf(Get(d, "purchasePrice", Num(0))),
            CurrencyOf(Get(d, "grossRentMonthly", Num(0))),
            CurrencyOf(Get(d, "downPayment", Num(0))),
            CurrencyOf(LET p == Mul(Get(d, "grossRentMonthly", Num(0)),
                                    RateValue(Get(d, "vacancyRate", Num(0))))
                       IN  IF IsRaise(p) THEN p ELSE Mul(p, Num(-1))),
            CurrencyOf(Get(d, "closingCosts", Num(0))),
            CurrencyOf(Get(d, "otherIncomeMonthly", Num(0))),
            CurrencyOf(Get(d, "rehabCosts", Num(0))),
            CurrencyOf(Get(d, "effectiveIncomeMonthly", Num(0))),
            CurrencyOf(Get(d, "loanAmount", Num(0))),
            CurrencyOf(Mul(Get(d, "totalExpensesMonthly", Num(0)), Num(-1))),
            CurrencyOf(Get(d, "totalCashNeeded", Num(0))),
            CurrencyOf(Get(d, "noiMonthly", Num(0))),
            CurrencyOf(Mul(Get(d, "monthlyPayment", Num(0)), Num(-1))) >>

\* app.py:234-250: the table of the cells, unless one of them raised
SnapshotTable(cells) ==
    IF IsRaise(FirstRaise(cells)) THEN FirstRaise(cells)
    ELSE Block("financial snapshot",
               [purchasePrice |-> cells[1].v, monthlyRent |-> cells[2].v,
                downPayment |-> cells[3].v, vacancyLoss |-> cells[4].v,
                closingCosts |-> cells[5].v, otherIncome |-> cells[6].v,
                rehabCosts |-> cells[7].v, effectiveIncome |-> cells[8].v,
                loanAmount |-> cells[9].v, operatingExpenses |-> cells[10].v,
                totalCashNeeded |-> cells[11].v, noi |-> cells[12].v,
                mortgagePayment |-> cells[13].v])

\* app.py:221-250 (financial_data is evaluated once, then laid out)
FinancialSnapshotSection(d) ==
    CHOOSE table \in {SnapshotTable(financial_data) : financial_data \in {SnapshotCells(d)}} : TRUE

\* app.py:252-275.  cf_color is assigned at line 256 and read nowhere: the
\* TableStyle of lines 264-273 colours both columns WHITE on NAVY.
CashFlowSection(d) ==
    LET monthly_cf == Get(d, "monthlyCashFlow", Num(0))
        annual_cf == Get(d, "annualCashFlow", Num(0))
    IN  IF monthly_cf.t = "null" THEN Raised("TypeError")
        ELSE LET cf_color == IF monthly_cf.v > 0 THEN SUCCESS ELSE DANGER
             IN  Block("cash-flow highlight",
                       [monthly |-> format_currency(monthly_cf),
                        annual |-> format_currency(annual_cf),
                        background |-> NAVY,
                        textColor |-> TextColors(<< <<0, 0, 0, -1, WHITE>>,
                                                    <<1, 0, 1, -1, WHITE>> >>, 2, 2)])

\* thresholds of the Key Metrics rows, app.py:288-292, in the units of
\* their fields (0.08 is 800 basis points, 1.25 is 125 hundredths)
CapRateGood == 800
CapRateAverage == 600
CashOnCashGood == 1000
CashOnCashAverage == 600
DscrStrong == 125
DscrMarginal == 100
GrmGood == 1200
OnePercentPass == 100

\* MetricStatusCmd with the AVERAGE / MARGINAL branch lost
MetricStatusCmdTwoTier(i, status) ==
    IF status \in {TxtGOOD, TxtSTRONG, TxtPASS} THEN <<3, i, 3, i, SUCCESS>>
    ELSE <<3, i, 3, i, DANGER>>

\* app.py:310-317, one iteration of the loop over metrics_data[1:]
MetricStatusCmd(i, status) ==
    IF status \in {TxtGOOD, TxtSTRONG, TxtPASS} THEN <<3, i, 3, i, SUCCESS>>
    ELSE IF status \in {TxtAVERAGE, TxtMARGINAL} THEN <<3, i, 3, i, WARNING>>
    ELSE <<3, i, 3, i, DANGER>>

\* app.py:277-320
KeyMetricsSection(d) ==
    LET cap_rate == Get(d, "capRate", Num(0))
        coc == Get(d, "cashOnCash", Num(0))
        dscr == Get(d, "dscr", Num(0))
        grm == Get(d, "grm", Num(0))
        one_pct == Get(d, "onePercentRule", Num(0))
    IN  IF \E x \in {cap_rate, coc, dscr, grm, one_pct} : x.t = "null"
        THEN Raised("TypeError")
        ELSE LET status == <<
                    IF cap_rate.v >= CapRateGood THEN TxtGOOD
                    ELSE IF cap_rate.v >= CapRateAverage THEN TxtAVERAGE ELSE TxtLOW,
                    IF coc.v >= CashOnCashGood THEN TxtGOOD
                    ELSE IF coc.v >= CashOnCashAverage THEN TxtAVERAGE ELSE TxtLOW,
                    IF dscr.v >= DscrStrong THEN TxtSTRONG
                    ELSE IF dscr.v >= DscrMarginal THEN TxtMARGINAL ELSE TxtWEAK,
                    IF grm.v <= GrmGood THEN TxtGOOD ELSE TxtHIGH,
                    IF one_pct.v >= OnePercentPass THEN TxtPASS ELSE TxtFAIL >>
                 value == <<format_percent(cap_rate), format_percent(coc),
                            FormatFixed2(dscr).v, FormatFixed2(grm).v,
                            format_percent(one_pct)>>
                 base == << <<0, 0, -1, 0, WHITE>> >>
                 loop == [i \in 1..5 |-> MetricStatusCmd(i, status[i])]
             IN  Block("key metrics",
                       [value |-> value, status |-> status,
                        textColor |-> TextColors(base \o loop, 4, 6)])

\* RuleResultCmd with the override applied to the whole row
RuleResultCmdWholeRow(i, result) ==
    IF result \in {TxtPASS, TxtYES} THEN <<0, i, -1, i, SUCCESS>>
    ELSE IF result = TxtREVIEW THEN <<0, i, -1, i, WARNING>>
    ELSE <<0, i, -1, i, DANGER>>

\* app.py:348-364, one iteration of the loop over rules_data[1:]
RuleResultCmd(i, result) ==
    IF result \in {TxtPASS, TxtYES} THEN <<1, i, 1, i, SUCCESS>>
    ELSE IF result = TxtREVIEW THEN <<1, i, 1, i, WARNING>>
    ELSE <<1, i, 1, i, DANGER>>

\* app.py:322-367
QuickRulesSection(d) ==
    LET result == <<
            IF Truthy(Get(d, "rule1Pass", Bool(FALSE))) THEN TxtPASS ELSE TxtFAIL,
            IF Truthy(Get(d, "rule2Pass", Bool(FALSE))) THEN TxtPASS ELSE TxtFAIL,
            IF Truthy(Get(d, "rule50Pass", Bool(FALSE))) THEN TxtPASS ELSE TxtREVIEW,
            IF Truthy(Get(d, "rule70Pass", Bool(FALSE))) THEN TxtPASS ELSE TxtFAIL,
            IF Truthy(Get(d, "cashFlowPositivePass", Bool(FALSE))) THEN TxtYES ELSE TxtNO >>
        base == << <<0, 0, -1, 0, WHITE>> >>
        loop == [i \in 1..5 |-> RuleResultCmd(i, result[i])]
    IN  Block("quick rules check",
              [result |-> result, textColor |-> TextColors(base \o loop, 3, 6)])

\* app.py:371
VerdictColor(verdict) ==
    IF verdict = Str(TxtSTRONGBUY) THEN SUCCESS
    ELSE IF verdict = Str(TxtCONSIDER) THEN CYAN
    ELSE IF verdict = Str(TxtREVIEW) THEN WARNING
    ELSE DANGER

\* app.py:369-387; the cell holds the object data.get returned
DealVerdictSection(d) ==
    LET verdict == Get(d, "verdict", Str(TxtREVIEW))
        verdict_color == VerdictColor(verdict)
    IN  Block("deal verdict",
              [verdict |-> verdict,
               background |-> NAVY,
               textColor |-> TextColors(<< <<0, 0, 0, 0, WHITE>>,
                                           <<1, 0, 1, 0, verdict_color>> >>, 2, 1)])

\* f"{x * 100:.0f}%" of a fraction given in whole percent
PercentOf(x) ==
    IF x.t = "null" THEN Raised("TypeError")
    ELSE Str((IF x.v < 0 THEN <<"-">> ELSE <<>>) \o Digits(Abs(x.v)) \o <<"%">>)

\* 1 - x of a fraction given in whole percent
OneMinus(x) == IF x.t = "null" THEN x ELSE Num(100 - x.v)

\* app.py:389-411
FinancingSection(d) ==
    LET down == PercentOf(Get(d, "downPaymentPercent", Num(0)))
        ltv == PercentOf(OneMinus(Get(d, "downPaymentPercent", Num(0))))
    IN  IF IsRaise(down) THEN down
        ELSE Block("financing details",
                   [interestRate |-> format_percent(Get(d, "interestRate", Num(0))),
                    loanTerm |-> PyStr(Get(d, "loanTermYears", Num(30)))
                                 \o <<" ", "y", "e", "a", "r", "s">>,
                    downPayment |-> down.v,
                    ltv |-> ltv.v,
                    monthlyPI |-> format_currency(Get(d, "monthlyPayment", Num(0))),
                    annualDebtService |-> format_currency(Get(d, "annualDebtService", Num(0)))])

\* app.py:413-433
FooterSection(d) == Block("footer", [link |-> CYAN])

\* the story, app.py:167-433
Sections(d) ==
    << HeaderSection(d), PropertySummarySection(d), FinancialSnapshotSection(d),
       CashFlowSection(d), KeyMetricsSection(d), QuickRulesSection(d),
       DealVerdictSection(d), FinancingSection(d), FooterSection(d) >>

\* BuildPdf returning what was built when a section raised
BuildPdfPartial(story, built) ==
    IF ~built THEN Raised("LayoutError")
    ELSE [t |-> "buffer", pos |-> "start",
          story |-> SelectSeq(story, LAMBDA b : ~IsRaise(b))]

\* app.py:435-439.  An exception raised while a section was evaluated has
\* left generate_pdf before anything is returned; built is FALSE when
\* doc.build(story) raises inside reportlab.  Otherwise the buffer holds
\* the rendering of the whole story, rewound to its start.
BuildPdf(story, built) ==
    IF IsRaise(FirstRaise(story)) THEN FirstRaise(story)
    ELSE IF ~built THEN Raised("LayoutError")
    ELSE [t |-> "buffer", pos |-> "start", story |-> story]

\* generate_pdf(data), app.py:113-439 (the story is evaluated once)
generate_pdf(d, built) ==
    CHOOSE buffer \in {BuildPdf(story, built) : story \in {Sections(d)}} : TRUE

----------------------------------------------------------------------------
(* The PDF filename, app.py:67-70 and app.py:491-497 *)

\* s.replace(old, new) for a one-character old
RECURSIVE Replace(_, _, _)
Replace(s, old, new) ==
    IF s = <<>> THEN <<>>
    ELSE (IF Head(s) = old THEN new ELSE <<Head(s)>>) \o Replace(Tail(s), old, new)

\* s[:n]
Slice(s, n) == IF Len(s) <= n THEN s ELSE SubSeq(s, 1, n)

FilenameLimit == 30

\* app.py:69; only str has replace
ReportSafeAddress(property_address) ==
    IF property_address.t # "str" THEN Raised("AttributeError")
    ELSE Str(Slice(Replace(Replace(Replace(property_address.v, " ", <<"_">>),
                                   ",", <<>>), ".", <<>>), FilenameLimit))

\* app.py:492
MailSafeAddress(property_address) ==
    IF property_address.t # "str" THEN Raised("AttributeError")
    ELSE Str(Slice(Replace(Replace(property_address.v, " ", <<"_">>), ",", <<>>),
                   FilenameLimit))

InvestmentProperty(sep) ==
    <<"I", "n", "v", "e", "s", "t", "m", "e", "n", "t", sep,
      "P", "r", "o", "p", "e", "r", "t", "y">>

----------------------------------------------------------------------------
(* generate_report, app.py:58-80.  body is the parsed JSON mapping, or     *)
(* Null when request.get_json() yields no mapping.  Respond is the part    *)
(* after generate_pdf (lines 67-80), given what generate_pdf did.  The     *)
(* error of a 500 response is str(e), named here by the exception raised.  *)

Respond(body, pdf_buffer) ==
    LET safe_address ==
            IF IsRaise(pdf_buffer) THEN pdf_buffer
            ELSE ReportSafeAddress(
                    Get(body.v, "propertyAddress", Str(InvestmentProperty("_"))))
    IN  IF IsRaise(safe_address)
        THEN [status |-> 500, contentType |-> "application/json",
              success |-> FALSE, error |-> safe_address.kind]
        ELSE [status |-> 200, contentType |-> "application/pdf",
              body |-> pdf_buffer.story, safe_address |-> safe_address.v]

\* pdf_buffer = generate_pdf(data), line 65: with no mapping the first
\* data.get inside generate_pdf raises
ReportBuffer(body, built) ==
    IF body.t = "null" THEN Raised("AttributeError")
    ELSE generate_pdf(body.v, built)

generate_report(body, built) ==
    CHOOSE r \in {Respond(body, pdf_buffer) :
                    pdf_buffer \in {ReportBuffer(body, built)}} : TRUE

----------------------------------------------------------------------------
(* send_email, app.py:442-511.  fail names the SMTP call that raises in    *)
(* this run ("none" when the server accepts everything).                   *)

SmtpSteps == <<"connect", "starttls", "login", "send_message", "quit">>

\* the SMTP calls made before the one that raises, that one included
RECURSIVE SmtpCalls(_, _)
SmtpCalls(fail, k) ==
    IF k > Len(SmtpSteps) THEN <<>>
    ELSE IF SmtpSteps[k] = fail THEN <<SmtpSteps[k]>>
    ELSE <<SmtpSteps[k]>> \o SmtpCalls(fail, k + 1)

\* send_email with the except clause logging the error and not re-raising
send_email_swallow(d, pdf_buffer, user, password, fail) ==
    LET property_address == Get(d, "propertyAddress", Str(InvestmentProperty(" ")))
        safe_address == MailSafeAddress(property_address)
        calls == SmtpCalls(fail, 1)
    IN  IF user = "" \/ password = ""
        THEN [result |-> "True", raised |-> "", smtp |-> <<>>, sent |-> FALSE,
              bufferPos |-> pdf_buffer.pos, safe_address |-> <<>>]
        ELSE IF IsRaise(safe_address)
        THEN [result |-> "raise", raised |-> safe_address.kind, smtp |-> <<>>,
              sent |-> FALSE, bufferPos |-> "end", safe_address |-> <<>>]
        ELSE [result |-> "True", raised |-> "", smtp |-> calls,
              sent |-> fail \in {"none", "quit"}, bufferPos |-> "end",
              safe_address |-> safe_address.v]

send_email(d, pdf_buffer, user, password, fail) ==
    LET property_address == Get(d, "propertyAddress", Str(InvestmentProperty(" ")))
        safe_address == MailSafeAddress(property_address)
        calls == SmtpCalls(fail, 1)
    IN  IF user = "" \/ password = ""
        THEN [result |-> "True", raised |-> "", smtp |-> <<>>, sent |-> FALSE,
              bufferPos |-> pdf_buffer.pos, safe_address |-> <<>>]
        ELSE IF IsRaise(safe_address)
        THEN [result |-> "raise", raised |-> safe_address.kind, smtp |-> <<>>,
              sent |-> FALSE, bufferPos |-> "end", safe_address |-> <<>>]
        ELSE IF fail # "none"
        THEN [result |-> "raise", raised |-> "SMTPException", smtp |-> calls,
              sent |-> fail = "quit", bufferPos |-> "end",
              safe_address |-> safe_address.v]
        ELSE [result |-> "True", raised |-> "", smtp |-> calls, sent |-> TRUE,
              bufferPos |-> "end", safe_address |-> safe_address.v]

----------------------------------------------------------------------------
(* Input mappings *)

Fields == {
    "userName", "userEmail",
    "propertyAddress", "propertyCity", "propertyState", "propertyZip", "propertyType",
    "numUnits", "bedrooms", "bathrooms", "sqft", "yearBuilt", "lotSize",
    "purchasePrice", "downPayment", "closingCosts", "rehabCosts", "loanAmount",
    "totalCashNeeded", "grossRentMonthly", "vacancyRate", "otherIncomeMonthly",
    "effectiveIncomeMonthly", "totalExpensesMonthly", "noiMonthly", "monthlyPayment",
    "monthlyCashFlow", "annualCashFlow",
    "capRate", "cashOnCash", "dscr", "grm", "onePercentRule",
    "rule1Pass", "rule2Pass", "rule50Pass", "rule70Pass", "cashFlowPositivePass",
    "verdict",
    "interestRate", "loanTermYears", "downPaymentPercent", "annualDebtService" }

MetricFields == <<"capRate", "cashOnCash", "dscr", "grm", "onePercentRule">>

RuleFields == <<"rule1Pass", "rule2Pass", "rule50Pass", "rule70Pass", "cashFlowPositivePass">>

\* the longest address is AddressUnits repeated this many times
MaxRepeat == 4

RECURSIVE Repeat(_, _)
Repeat(s, n) == IF n = 0 THEN <<>> ELSE s \o Repeat(s, n - 1)

AddressUnits == {
    <<"1", "2", "3", " ", "M", "a", "i", "n", " ", "S", "t", ".", ",", " ",
      "A", "p", "t", " ", "#", "4">>,
    <<"9", " ", "O", "a", "k", " ", "A", "v", "e", ".">>,
    <<"L", "o", "t", "7">> }

Addresses == {Repeat(u, n) : u \in AddressUnits, n \in 0..MaxRepeat}

\* the numbers a field is tried with, besides being absent or None
Numbers(f) ==
    CASE f \in {"capRate"} -> {500, 600, 799, 800, 850}
      [] f \in {"cashOnCash"} -> {599, 600, 999, 1000, 1100}
      [] f \in {"dscr"} -> {99, 100, 124, 125, 130}
      [] f \in {"grm"} -> {1050, 1200, 1201}
      [] f \in {"onePercentRule"} -> {99, 100}
      [] f \in {"monthlyCashFlow"} -> {-100, 0, 1, 250}
      [] f \in {"annualCashFlow"} -> {-1200, 0, 12, 3000}
      [] f \in {"vacancyRate"} -> {0, 5, 50}
      [] f \in {"downPaymentPercent"} -> {0, 20, 100}
      [] f \in {"interestRate"} -> {0, 675}
      [] f \in {"loanTermYears"} -> {15, 30}
      [] f \in {"numUnits", "bedrooms", "bathrooms", "lotSize"} -> {0, 2}
      [] f \in {"sqft"} -> {0, 950, 1850}
      [] f \in {"yearBuilt"} -> {1987}
      [] f \in {"grossRentMonthly"} -> {0, 10, 3000}
      [] OTHER -> {0, 1500, 300000}

\* the values a present key is tried with
Values(f) ==
    {Null} \cup
    CASE f = "propertyAddress" -> {Str(a) : a \in Addresses}
      [] f = "verdict" ->
            {Str(TxtSTRONGBUY), Str(TxtCONSIDER), Str(TxtREVIEW), Str(TxtPASS),
             Str(<<"R", "e", "v", "i", "e", "w">>)}
      [] f \in {"userName", "userEmail", "propertyCity", "propertyState",
                "propertyZip", "propertyType"} -> {Str(<<>>), Str(<<"A", "n", "n">>)}
      [] f \in {"rule1Pass", "rule2Pass", "rule50Pass", "rule70Pass",
                "cashFlowPositivePass"} -> {Bool(TRUE), Bool(FALSE)}
      [] OTHER -> {Num(n) : n \in Numbers(f)}

\* a complete mapping: the favourable deal
FullInput ==
    [f \in Fields |->
        CASE f = "propertyAddress" -> Str(Repeat(CHOOSE u \in AddressUnits : Len(u) = 20, 1))
          [] f = "verdict" -> Str(TxtSTRONGBUY)
          [] f \in {"userName", "userEmail", "propertyCity", "propertyState",
                    "propertyZip", "propertyType"} -> Str(<<"A", "n", "n">>)
          [] f \in {"rule1Pass", "rule50Pass", "rule70Pass", "cashFlowPositivePass"} -> Bool(TRUE)
          [] f = "rule2Pass" -> Bool(FALSE)
          [] f = "capRate" -> Num(850)
          [] f = "cashOnCash" -> Num(1100)
          [] f = "dscr" -> Num(130)
          [] f = "grm" -> Num(1050)
          [] f = "onePercentRule" -> Num(100)
          [] f = "monthlyCashFlow" -> Num(250)
          [] f = "annualCashFlow" -> Num(3000)
          [] f = "vacancyRate" -> Num(5)
          [] f = "grossRentMonthly" -> Num(3000)
          [] f = "downPaymentPercent" -> Num(20)
          [] f = "interestRate" -> Num(675)
          [] f = "loanTermYears" -> Num(30)
          [] f = "sqft" -> Num(1850)
          [] f = "yearBuilt" -> Num(1987)
          [] f \in {"numUnits", "bedrooms", "bathrooms", "lotSize"} -> Num(2)
          [] OTHER -> Num(300000)]

\* the mapping with no key
EmptyInput == [f \in {} |-> Null]

\* d without the keys of K
Without(d, K) == [f \in (DOMAIN d) \ K |-> d[f]]

\* d with key f set to v
With(d, f, v) == [g \in (DOMAIN d) \cup {f} |-> IF g = f THEN v ELSE d[g]]

\* every mapping that differs from a base mapping in at most one key
OneKeyInputs ==
    LET bases == {FullInput, EmptyInput}
    IN  bases \cup {Without(b, {f}) : b \in bases, f \in Fields}
              \cup UNION {{With(b, f, v) : v \in Values(f)} : b \in bases, f \in Fields}

\* a mapping over keys K from a choice of Absent or a value for each key
Absent == [t |-> "absent"]

FromChoice(ks, choice) ==
    LET present == {i \in DOMAIN ks : choice[i] # Absent}
    IN  [f \in (Fields \ {ks[i] : i \in DOMAIN ks}) \cup {ks[i] : i \in present} |->
            IF f \in {ks[i] : i \in present}
            THEN choice[CHOOSE i \in present : ks[i] = f]
            ELSE FullInput[f]]

\* what a metric is tried with in the combinations: absent, or a number
\* of each tier (the tier boundaries themselves are among Numbers(f))
Choices(f) ==
    {Absent} \cup
    CASE f = "capRate" -> {Num(599), Num(600), Num(800)}
      [] f = "cashOnCash" -> {Num(599), Num(600), Num(1000)}
      [] f = "dscr" -> {Num(99), Num(100), Num(125)}
      [] f = "grm" -> {Num(1200), Num(1201)}
      [] f = "onePercentRule" -> {Num(99), Num(100)}

\* every combination of the five metrics, the other keys as in FullInput
MetricInputs ==
    {FromChoice(MetricFields, <<a, b, c, e, g>>) :
        a \in Choices("capRate"), b \in Choices("cashOnCash"), c \in Choices("dscr"),
        e \in Choices("grm"), g \in Choices("onePercentRule")}

\* every combination of the five rule booleans, the other keys as in FullInput
RuleInputs ==
    {FromChoice(RuleFields, c) : c \in [1..5 -> {Absent, Bool(TRUE), Bool(FALSE)}]}

ReportInputs == OneKeyInputs \cup MetricInputs \cup RuleInputs

\* the mappings send_email is tried with: those of OneKeyInputs that
\* differ from their base in a key send_email reads
MailInputs ==
    {d \in OneKeyInputs :
        \E b \in {FullInput, EmptyInput} :
            \A f \in Fields \ {"userEmail", "userName", "propertyAddress"} :
                (f \in DOMAIN d) = (f \in DOMAIN b) /\ (f \in DOMAIN d => d[f] = b[f])}

\* arguments of format_currency: None, the ints of at most MaxGroups
\* thousands groups drawn from GroupValues, two seven-digit ints, and
\* floats in hundredths
MaxGroups == 2

GroupValues == {0, 1, 234, 500, 567, 999}

RECURSIVE Amounts(_)
Amounts(k) ==
    IF k = 0 THEN {0}
    ELSE {a * 1000 + g : a \in Amounts(k - 1), g \in GroupValues}

CurrencyArgs ==
    {Null} \cup {Num(s * n) : s \in {1, -1}, n \in Amounts(MaxGroups) \cup {1000000, 1234567}}
           \cup {Frac(neg, n, 100) : neg \in BOOLEAN, n \in {0, 15, 50, 150, 250, 15000}}

PercentArgs == {Null} \cup {Num(n) : n \in {-250, 0, 5, 825, 850, 10000, 12345}}

\* arguments of get_status_color: values and thresholds in 0..MaxLevel
MaxLevel == 3

Levels == {Num(n) : n \in 0..MaxLevel}

----------------------------------------------------------------------------
(* State machine *)

NoCall == [t |-> "none"]

Json(d) == [t |-> "json", v |-> d]

\* generate_pdf reads the mapping through data.get only (app.py:187-398):
\* the mapping after the call is the mapping passed in
MappingAfter(d) == d

Init ==
    /\ EMAIL_USER \in {"", "info@bogenhomes.com"}
    /\ EMAIL_PASSWORD \in {"", "secret"}
    /\ op = "idle"
    /\ helper = NoCall
    /\ arg = NoCall
    /\ data = NoCall
    /\ pdf = NoCall
    /\ response = NoCall
    /\ mail = NoCall

FormatCurrency ==
    /\ op = "idle"
    /\ \E amount \in CurrencyArgs :
        helper' = [t |-> "format_currency", args |-> <<amount>>,
                   result |-> Str(format_currency(amount))]
    /\ op' = "format_currency"
    /\ UNCHANGED <<EMAIL_USER, EMAIL_PASSWORD, arg, data, pdf, response, mail>>

FormatPercent ==
    /\ op = "idle"
    /\ \E value \in PercentArgs :
        helper' = [t |-> "format_percent", args |-> <<value>>,
                   result |-> Str(format_percent(value))]
    /\ op' = "format_percent"
    /\ UNCHANGED <<EMAIL_USER, EMAIL_PASSWORD, arg, data, pdf, response, mail>>

GetStatusColor ==
    /\ op = "idle"
    /\ \E value \in Levels \cup {Null}, good \in Levels, warn \in Levels \cup {Null},
          higher \in BOOLEAN :
        helper' = [t |-> "get_status_color", args |-> <<value, good, warn, higher>>,
                   result |-> get_status_color(value, good, warn, higher)]
    /\ op' = "get_status_color"
    /\ UNCHANGED <<EMAIL_USER, EMAIL_PASSWORD, arg, data, pdf, response, mail>>

GeneratePdf ==
    /\ op = "idle"
    /\ \E d \in ReportInputs, built \in BOOLEAN :
        /\ arg' = Json(d)
        /\ pdf' = generate_pdf(d, built)
        /\ data' = Json(MappingAfter(d))
    /\ op' = "generate_pdf"
    /\ UNCHANGED <<EMAIL_USER, EMAIL_PASSWORD, helper, response, mail>>

GenerateReport ==
    /\ op = "idle"
    /\ \E body \in {Null} \cup {Json(d) : d \in OneKeyInputs}, built \in BOOLEAN :
        /\ arg' = body
        /\ data' = IF body.t = "null" THEN body ELSE Json(MappingAfter(body.v))
        /\ pdf' = ReportBuffer(body, built)
        /\ response' = generate_report(body, built)
    /\ op' = "generate_report"
    /\ UNCHANGED <<EMAIL_USER, EMAIL_PASSWORD, helper, mail>>

\* send_email is handed the mapping and the buffer generate_pdf returned for
\* it; fault records what the SMTP server did in this run
SendEmail ==
    /\ op = "idle"
    /\ \E d \in MailInputs, fail \in {"none"} \cup {SmtpSteps[k] : k \in DOMAIN SmtpSteps} :
        \E pdf_buffer \in {generate_pdf(d, TRUE)} :
            /\ ~IsRaise(pdf_buffer)
            /\ arg' = Json(d)
            /\ data' = Json(d)
            /\ pdf' = pdf_buffer
            /\ mail' = [out |-> send_email(d, pdf_buffer, EMAIL_USER, EMAIL_PASSWORD, fail),
                        fault |-> fail]
    /\ op' = "send_email"
    /\ UNCHANGED <<EMAIL_USER, EMAIL_PASSWORD, helper, response>>

\* the call returns to its caller; nothing of it is kept (no state is
\* shared between invocations)
Return ==
    /\ op # "idle"
    /\ op' = "idle"
    /\ helper' = NoCall
    /\ arg' = NoCall
    /\ data' = NoCall
    /\ pdf' = NoCall
    /\ response' = NoCall
    /\ mail' = NoCall
    /\ UNCHANGED <<EMAIL_USER, EMAIL_PASSWORD>>

Next ==
    \/ GeneratePdf
    \/ GenerateReport
    \/ SendEmail
    \/ FormatCurrency
    \/ FormatPercent
    \/ GetStatusColor
    \/ Return

Spec == Init /\ [][Next]_vars

----------------------------------------------------------------------------
(* Properties *)

\* generate_pdf returned a buffer for the mapping in arg
PdfBuilt == op = "generate_pdf" /\ pdf.t = "buffer"

\* the block of the story with the given name
Section(name) == pdf.story[CHOOSE k \in DOMAIN pdf.story : pdf.story[k].name = name].content

\* the tier labels of the five Key Metrics rows
TopLabel == <<TxtGOOD, TxtGOOD, TxtSTRONG, TxtGOOD, TxtPASS>>
MidLabel == <<TxtAVERAGE, TxtAVERAGE, TxtMARGINAL, <<>>, <<>> >>
BottomLabel == <<TxtLOW, TxtLOW, TxtWEAK, TxtHIGH, TxtFAIL>>

\* the tier ("top", "mid", "bottom") the Key Metrics table assigns to the
\* number v in row i
MetricTier(i, v) ==
    CASE i = 1 -> IF v >= 800 THEN "top" ELSE IF v >= 600 THEN "mid" ELSE "bottom"
      [] i = 2 -> IF v >= 1000 THEN "top" ELSE IF v >= 600 THEN "mid" ELSE "bottom"
      [] i = 3 -> IF v >= 125 THEN "top" ELSE IF v >= 100 THEN "mid" ELSE "bottom"
      [] i = 4 -> IF v <= 1200 THEN "top" ELSE "bottom"
      [] i = 5 -> IF v >= 100 THEN "top" ELSE "bottom"

\* C1: in every report generate_pdf builds, each of the five Key Metrics
\* rows carries the label and the status-cell text colour of the tier that
\* its own value falls in (cap rate >= 8% / >= 6%, cash-on-cash >= 10% /
\* >= 6%, DSCR >= 1.25 / >= 1.0, GRM <= 12 with no middle tier, 1% rule
\* >= 1%; top SUCCESS, middle WARNING, bottom DANGER), whatever the other
\* keys hold, and a metric whose key is absent is classified as the value 0.
C1_KeyMetricsTiers ==
    PdfBuilt =>
        \A i \in 1..5 :
            LET v == IF MetricFields[i] \in DOMAIN arg.v THEN arg.v[MetricFields[i]].v ELSE 0
                tier == MetricTier(i, v)
                row == Section("key metrics")
            IN  /\ tier = "top" => row.status[i] = TopLabel[i] /\ row.textColor[i][3] = SUCCESS
                /\ tier = "mid" => row.status[i] = MidLabel[i] /\ row.textColor[i][3] = WARNING
                /\ tier = "bottom" => row.status[i] = BottomLabel[i] /\ row.textColor[i][3] = DANGER

\* a report in which a cap rate of 6% is AVERAGE while the absent GRM is
\* classified as 0 (GOOD) and the DSCR of 0.99 is WEAK
C1_Witness ==
    /\ PdfBuilt
    /\ "grm" \notin DOMAIN arg.v
    /\ "capRate" \in DOMAIN arg.v /\ arg.v["capRate"] = Num(600)
    /\ "dscr" \in DOMAIN arg.v /\ arg.v["dscr"] = Num(99)
    /\ Section("key metrics").status = <<TxtAVERAGE, TxtGOOD, TxtWEAK, TxtGOOD, TxtPASS>>
    /\ Section("key metrics").textColor[1][3] = WARNING

\* C2: in every report generate_pdf builds, the monthly and annual cash-flow
\* cells are tinted SUCCESS when monthlyCashFlow > 0 and DANGER otherwise.
C2_CashFlowTint ==
    PdfBuilt =>
        LET cf == IF "monthlyCashFlow" \in DOMAIN arg.v THEN arg.v["monthlyCashFlow"].v ELSE 0
            tint == IF cf > 0 THEN SUCCESS ELSE DANGER
            block == Section("cash-flow highlight")
        IN  \A r \in 0..1 : block.textColor[r][1] = tint \/ block.background = tint

\* C3: in every report generate_pdf builds, each rule row's result depends
\* on its own boolean only: true gives PASS (YES for cash-flow-positive) in
\* SUCCESS; false, None or an absent key gives REVIEW in WARNING for the 50%
\* rule, FAIL in DANGER for the 1%, 2% and 70% rules and NO in DANGER for
\* cash-flow-positive; every other cell of the table keeps the colour of the
\* table's base style.
C3_QuickRules ==
    PdfBuilt =>
        LET block == Section("quick rules check")
        IN  /\ \A i \in 1..5 :
                LET passed == /\ RuleFields[i] \in DOMAIN arg.v
                              /\ arg.v[RuleFields[i]] = Bool(TRUE)
                IN  /\ passed =>
                        /\ block.result[i] = (IF i = 5 THEN TxtYES ELSE TxtPASS)
                        /\ block.textColor[i][1] = SUCCESS
                    /\ ~passed =>
                        /\ block.result[i] = (CASE i = 3 -> TxtREVIEW
                                                [] i = 5 -> TxtNO
                                                [] OTHER -> TxtFAIL)
                        /\ block.textColor[i][1] = (IF i = 3 THEN WARNING ELSE DANGER)
            /\ \A r \in 0..5, c \in 0..2 :
                (r = 0 \/ c # 1) =>
                    block.textColor[r][c] = (IF r = 0 THEN WHITE ELSE DefaultTextColor)

\* a report whose 1% rule passed, whose 50% rule is None and whose
\* cash-flow-positive key is absent
C3_Witness ==
    /\ PdfBuilt
    /\ Section("quick rules check").result[1] = TxtPASS
    /\ Section("quick rules check").result[3] = TxtREVIEW
    /\ Section("quick rules check").textColor[3][1] = WARNING
    /\ \/ ("rule50Pass" \in DOMAIN arg.v /\ arg.v["rule50Pass"] = Null)
       \/ "cashFlowPositivePass" \notin DOMAIN arg.v

\* C4: in every report generate_pdf builds, the verdict cell shows the
\* verdict string, "REVIEW" standing in for an absent key or a None value,
\* tinted by that string: STRONG BUY SUCCESS, CONSIDER CYAN, REVIEW WARNING,
\* anything else DANGER.
C4_VerdictTint ==
    PdfBuilt =>
        LET missing == "verdict" \notin DOMAIN arg.v \/ arg.v["verdict"] = Null
            shown == IF missing THEN Str(TxtREVIEW) ELSE arg.v["verdict"]
            tint == CASE shown = Str(TxtSTRONGBUY) -> SUCCESS
                      [] shown = Str(TxtCONSIDER) -> CYAN
                      [] shown = Str(TxtREVIEW) -> WARNING
                      [] OTHER -> DANGER
            block == Section("deal verdict")
        IN  block.verdict = shown /\ block.textColor[0][1] = tint

\* the text the claim gives for an int amount: the minus sign before "$"
SignedCurrency(n) ==
    (IF n < 0 THEN <<"-">> ELSE <<>>) \o <<"$">> \o Grouped(Abs(n))

\* C5: format_currency returns "$0" for None and, for every int amount, "$"
\* and the thousands-grouped amount, a negative amount with the minus sign
\* before the "$" (format_currency(-500) = "-$500").
C5_FormatCurrency ==
    op = "format_currency" =>
        LET amount == helper.args[1]
        IN  /\ amount.t = "null" => helper.result = Str(<<"$", "0">>)
            /\ amount.t = "num" => helper.result = Str(SignedCurrency(amount.v))

\* C6: for a number value, get_status_color returns SUCCESS when the value
\* clears the good threshold in the direction of the flag, otherwise WARNING
\* when a warn threshold is supplied (zero included) and the value clears
\* it, otherwise DANGER.
C6_StatusColor ==
    (op = "get_status_color" /\ helper.args[1].t = "num") =>
        LET value == helper.args[1].v
            good == helper.args[2].v
            warn == helper.args[3]
            higher == helper.args[4]
            clears(x, limit) == IF higher THEN x >= limit ELSE x <= limit
        IN  helper.result =
                Color(IF clears(value, good) THEN SUCCESS
                      ELSE IF warn.t = "num" /\ clears(value, warn.v) THEN WARNING
                      ELSE DANGER)

\* C7: no call fails because of a field that is absent or None: generate_pdf
\* raises nothing on its own account (only reportlab's build may fail), and
\* format_currency, format_percent and get_status_color raise nothing.
C7_MissingFieldsNeverFatal ==
    /\ op = "generate_pdf" => (IsRaise(pdf) => pdf.kind = "LayoutError")
    /\ op \in {"format_currency", "format_percent", "get_status_color"} =>
            ~IsRaise(helper.result)

\* the address-derived part of the filename of the download response
ReportNameOf(d) ==
    ReportSafeAddress(Get(d, "propertyAddress", Str(InvestmentProperty("_"))))

CleanName(name) ==
    /\ Len(name) <= 30
    /\ \A k \in DOMAIN name : name[k] \notin {" ", ",", "."}

\* C8: the address-derived part of the PDF filename holds no space, comma or
\* period and at most 30 characters, in the download response and in the
\* mail attachment alike, and both are the same for the same address.
C8_SafeFilename ==
    /\ (op = "generate_report" /\ response.status = 200) => CleanName(response.safe_address)
    /\ (op = "send_email" /\ mail.out.smtp # <<>>) =>
            /\ CleanName(mail.out.safe_address)
            /\ Str(mail.out.safe_address) = ReportNameOf(arg.v)

\* C9: without EMAIL_USER or EMAIL_PASSWORD send_email returns True having
\* opened no SMTP connection and left the buffer unread; with both set, a
\* failing connect, starttls, login or send_message reaches the caller as an
\* exception, and True is returned only after send_message went through.
C9_SendEmail ==
    op = "send_email" =>
        IF EMAIL_USER = "" \/ EMAIL_PASSWORD = ""
        THEN /\ mail.out.result = "True"
             /\ mail.out.smtp = <<>>
             /\ ~mail.out.sent
             /\ mail.out.bufferPos = "start"
        ELSE /\ mail.fault \in {"connect", "starttls", "login", "send_message"} =>
                    mail.out.result = "raise" /\ ~mail.out.sent
             /\ mail.out.result = "True" =>
                    /\ mail.out.sent
                    /\ \E k \in DOMAIN mail.out.smtp : mail.out.smtp[k] = "send_message"

\* with both credentials set, the server rejects the login and send_email
\* raises after connect, starttls and login
C9_Witness ==
    /\ op = "send_email"
    /\ EMAIL_USER # "" /\ EMAIL_PASSWORD # ""
    /\ mail.fault = "login"
    /\ mail.out.result = "raise"
    /\ mail.out.smtp = <<"connect", "starttls", "login">>

SectionOrder ==
    <<"header", "property summary", "financial snapshot", "cash-flow highlight",
      "key metrics", "quick rules check", "deal verdict", "financing details", "footer">>

\* C10: a call of generate_pdf either raises and returns nothing, or returns
\* a buffer rendered from all nine sections in their fixed order, none of
\* them missing or failed; the mapping is the same after the call.
C10_NoPartialReport ==
    op = "generate_pdf" =>
        /\ \/ IsRaise(pdf)
           \/ /\ pdf.t = "buffer"
              /\ Len(pdf.story) = Len(SectionOrder)
              /\ \A k \in DOMAIN pdf.story :
                    pdf.story[k].t = "block" /\ pdf.story[k].name = SectionOrder[k]
        /\ data = arg

\* the mapping with no key at all yields the complete report
C10_Witness ==
    /\ op = "generate_pdf"
    /\ arg = Json(EmptyInput)
    /\ pdf.t = "buffer"
    /\ Len(pdf.story) = 9

----------------------------------------------------------------------------
(* generate_report's failures, app.py:78-80.                                *)

\* the call failed while generate_pdf was producing the report of a mapping
RenderFailure ==
    /\ op = "generate_report"
    /\ arg.t = "json"
    /\ IsRaise(pdf)

\* what an error response states besides the text of the exception
Condition(r) ==
    [status |-> r.status, contentType |-> r.contentType, success |-> r.success]

\* the response to a request with no JSON body
NoBodyFailure == generate_report(Null, TRUE)

\* the response to a request whose report is produced and whose filename
\* cannot be derived (propertyAddress is None)
FilenameFailure ==
    generate_report(Json(With(EmptyInput, "propertyAddress", Null)), TRUE)

\* C11: a rendering failure of generate_pdf ends the request with an error
\* outcome that carries no PDF body, and that outcome is a condition of its
\* own: it differs from the outcome of a request with no JSON body and from
\* the outcome of a failure while deriving the filename.
C11_DistinctRendererFailure ==
    RenderFailure =>
        /\ response.status # 200
        /\ response.contentType # "application/pdf"
        /\ "body" \notin DOMAIN response
        /\ Condition(response) # Condition(NoBodyFailure)
        /\ Condition(response) # Condition(FilenameFailure)

====
